---- MODULE Spec2Model ----
(***************************************************************************)
(* Ballot Leader Election (src/src/leader_election.rs).                    *)
(*                                                                         *)
(* A BallotLeaderElection instance is a record of its fields; every method *)
(* of the impl is an operator from the instance (and the arguments) to the *)
(* instance after the call (and the return value where there is one).      *)
(* Option<T> is a sequence of length at most one: None is <<>>, Some(x) is *)
(* <<x>>.  Vec<T> is a sequence.  The u32 and u64 fields are integers; the  *)
(* guards of the actions keep them far below the width of the type, so no  *)
(* addition of the code overflows in the model.                            *)
(***************************************************************************)
EXTENDS Integers, Sequences, FiniteSets, TLC

VARIABLES
    ble,     \* the BallotLeaderElection instance of every replica
    cfg,     \* the parameters every replica was constructed with
    last,    \* the last call made on a replica
    held,    \* per replica, the greatest ballot number of the leaders it held
    net,     \* the messages in flight, in the order they were sent
    ticked,  \* the replicas that have ticked in the current lockstep tick
    cut,     \* whether the messages from replica 3 have stopped
    closes,  \* per replica, the rounds it has closed since then
    announced, \* per replica, what tick() returned at its last round close
    seeded   \* per replica, whether a set_initial_leader call has succeeded

vars == <<ble, cfg, last, held, net, ticked, cut, closes, announced, seeded>>

-----------------------------------------------------------------------------
(* Bounds of the model.                                                    *)

\* greatest ballot number a reply or an initial leader carries, and the
\* greatest current_ballot.n a round close may produce
MaxN == 1
\* rounds a replica opens
MaxRound == 4
\* replies accepted into the ballot bag during one round
MaxBag == 1
\* greatest hb_delay stale replies may widen the delay to
MaxDelay == 3
\* messages that may wait in outgoing when the host makes the next call
MaxOut == 0

-----------------------------------------------------------------------------
(* Option<T>                                                               *)

None == <<>>

Some(x) == <<x>>

is_none(o) == o = <<>>

-----------------------------------------------------------------------------
(* Ballot, Leader and the messages                                         *)

Ballot_with(n, pid) == [n |-> n, pid |-> pid]

\* #[derive(Default)]: Ballot { n: 0, pid: 0 }
Ballot_default == Ballot_with(0, 0)

\* #[derive(Ord)]: lexicographic in the order of the fields, n then pid
Ballot_lt(a, b) == a.n < b.n \/ (a.n = b.n /\ a.pid < b.pid)

unwrap_or_default(o) == IF is_none(o) THEN Ballot_default ELSE o[1]

Leader_with(pid, round) == [pid |-> pid, round |-> round]

HeartbeatRequest_with(round) == [type |-> "Request", round |-> round]

HeartbeatReply_with(round, ballot, majority_connected) ==
    [type |-> "Reply", round |-> round, ballot |-> ballot,
     majority_connected |-> majority_connected]

BLEMessage_with(from, to, msg) == [from |-> from, to |-> to, msg |-> msg]

-----------------------------------------------------------------------------
(* BallotLeaderElection                                                    *)

BallotLeaderElection_with(peers, pid, hb_delay, increment_delay, quick_timeout, initial_leader, initial_delay_factor) ==
    LET n == Len(peers) + 1
        leader_ballot == Ballot_with(initial_leader[1].round.n, initial_leader[1].pid)
        leader == IF is_none(initial_leader) THEN None ELSE Some(leader_ballot)
        initial_ballot ==
            IF is_none(initial_leader) THEN Ballot_with(0, pid)
            ELSE IF initial_leader[1].pid = pid THEN leader_ballot
            ELSE Ballot_with(0, pid)
    IN  [pid |-> pid,
         majority |-> (n \div 2) + 1,
         peers |-> peers,
         hb_round |-> 0,
         ballots |-> <<>>,
         current_ballot |-> initial_ballot,
         majority_connected |-> TRUE,
         leader |-> leader,
         hb_current_delay |-> hb_delay,
         hb_delay |-> hb_delay,
         increment_delay |-> increment_delay,
         quick_timeout |-> quick_timeout,
         initial_delay_factor |->
             IF is_none(initial_delay_factor) THEN 1 ELSE initial_delay_factor[1],
         ticks_elapsed |-> 0,
         outgoing |-> <<>>]

get_leader(s) ==
    IF is_none(s.leader) THEN None
    ELSE Some(Leader_with(s.leader[1].pid, s.leader[1]))

\* the body of set_initial_leader once its assert!(self.leader.is_none()) passed
set_initial_leader(s, l) ==
    LET leader_ballot == Ballot_with(l.round.n, l.pid)
    IN  IF l.pid = s.pid
        THEN [s EXCEPT !.leader = Some(leader_ballot),
                       !.current_ballot = leader_ballot,
                       !.majority_connected = TRUE,
                       !.quick_timeout = FALSE]
        ELSE [s EXCEPT !.leader = Some(leader_ballot),
                       !.current_ballot = Ballot_with(0, s.pid),
                       !.majority_connected = FALSE,
                       !.quick_timeout = FALSE]

\* the greatest of a non-empty set of ballots
Ballot_max(S) == CHOOSE b \in S : \A c \in S : c = b \/ Ballot_lt(c, b)

\* filter_map(candidate).max().unwrap_or_default() over the ballot bag
top_ballot_of(ballots) ==
    LET cands == {ballots[i][1] : i \in {j \in 1..Len(ballots) : ballots[j][2]}}
    IN  IF cands = {} THEN Ballot_default ELSE Ballot_max(cands)

\* check_leader that, on losing the incumbent, bumps its own ballot number
\* instead of the leader's
check_leader_bumps_own(s) ==
    LET top_ballot == top_ballot_of(s.ballots)
        taken == [s EXCEPT !.ballots = <<>>]
    IN  IF Ballot_lt(top_ballot, unwrap_or_default(s.leader))
        THEN [state |-> [taken EXCEPT
                            !.current_ballot.n = s.current_ballot.n + 1,
                            !.leader = None,
                            !.majority_connected = TRUE],
              result |-> None]
        ELSE IF s.leader # Some(top_ballot)
        THEN [state |-> [taken EXCEPT
                            !.quick_timeout = FALSE,
                            !.leader = Some(top_ballot),
                            !.majority_connected = (s.pid = top_ballot.pid)],
              result |-> Some(Leader_with(top_ballot.pid, top_ballot))]
        ELSE [state |-> taken, result |-> None]

check_leader(s) ==
    LET top_ballot == top_ballot_of(s.ballots)
        taken == [s EXCEPT !.ballots = <<>>]
    IN  IF Ballot_lt(top_ballot, unwrap_or_default(s.leader))
        THEN [state |-> [taken EXCEPT
                            !.current_ballot.n = unwrap_or_default(s.leader).n + 1,
                            !.leader = None,
                            !.majority_connected = TRUE],
              result |-> None]
        ELSE IF s.leader # Some(top_ballot)
        THEN [state |-> [taken EXCEPT
                            !.quick_timeout = FALSE,
                            !.leader = Some(top_ballot),
                            !.majority_connected = (s.pid = top_ballot.pid)],
              result |-> Some(Leader_with(top_ballot.pid, top_ballot))]
        ELSE [state |-> taken, result |-> None]

\* new_hb_round that opens the round without advancing hb_round
new_hb_round_same_round(s) ==
    [s EXCEPT
        !.hb_current_delay =
            IF s.quick_timeout THEN s.hb_delay \div s.initial_delay_factor
            ELSE s.hb_delay,
        !.outgoing = s.outgoing \o
            [i \in 1..Len(s.peers) |->
                BLEMessage_with(s.peers[i], s.pid, HeartbeatRequest_with(s.hb_round))]]

new_hb_round(s) ==
    LET round == s.hb_round + 1
    IN  [s EXCEPT
            !.hb_current_delay =
                IF s.quick_timeout THEN s.hb_delay \div s.initial_delay_factor
                ELSE s.hb_delay,
            !.hb_round = round,
            !.outgoing = s.outgoing \o
                [i \in 1..Len(s.peers) |->
                    BLEMessage_with(s.peers[i], s.pid, HeartbeatRequest_with(round))]]

\* hb_timeout that leaves majority_connected alone when the gate fails
hb_timeout_keeps_flag(s) ==
    LET closed ==
            IF Len(s.ballots) + 1 >= s.majority
            THEN check_leader([s EXCEPT !.ballots =
                     Append(s.ballots, <<s.current_ballot, s.majority_connected>>)])
            ELSE [state |-> [s EXCEPT !.ballots = <<>>], result |-> None]
    IN  [state |-> new_hb_round(closed.state), result |-> closed.result]

hb_timeout(s) ==
    LET closed ==
            IF Len(s.ballots) + 1 >= s.majority
            THEN check_leader([s EXCEPT !.ballots =
                     Append(s.ballots, <<s.current_ballot, s.majority_connected>>)])
            ELSE [state |-> [s EXCEPT !.ballots = <<>>, !.majority_connected = FALSE],
                  result |-> None]
    IN  [state |-> new_hb_round(closed.state), result |-> closed.result]

\* tick() that drops the leader on a tick that does not close the round
tick_forgets_leader(s) ==
    LET t == [s EXCEPT !.ticks_elapsed = s.ticks_elapsed + 1]
    IN  IF t.ticks_elapsed >= t.hb_current_delay
        THEN hb_timeout([t EXCEPT !.ticks_elapsed = 0])
        ELSE [state |-> [t EXCEPT !.leader = None], result |-> None]

tick(s) ==
    LET t == [s EXCEPT !.ticks_elapsed = s.ticks_elapsed + 1]
    IN  IF t.ticks_elapsed >= t.hb_current_delay
        THEN hb_timeout([t EXCEPT !.ticks_elapsed = 0])
        ELSE [state |-> t, result |-> None]

\* handle_request that answers with the receiver's own hb_round
handle_request_own_round(s, from, req) ==
    LET hb_reply == HeartbeatReply_with(s.hb_round, s.current_ballot, s.majority_connected)
    IN  [s EXCEPT !.outgoing = Append(s.outgoing, BLEMessage_with(s.pid, from, hb_reply))]

handle_request(s, from, req) ==
    LET hb_reply == HeartbeatReply_with(req.round, s.current_ballot, s.majority_connected)
    IN  [s EXCEPT !.outgoing = Append(s.outgoing, BLEMessage_with(s.pid, from, hb_reply))]

\* handle_reply that widens the delay and still counts the stale ballot
handle_reply_counts_stale(s, rep) ==
    IF rep.round = s.hb_round
    THEN [s EXCEPT !.ballots = Append(s.ballots, <<rep.ballot, rep.majority_connected>>)]
    ELSE [s EXCEPT !.hb_delay = s.hb_delay + s.increment_delay,
                   !.ballots = Append(s.ballots, <<rep.ballot, rep.majority_connected>>)]

handle_reply(s, rep) ==
    IF rep.round = s.hb_round
    THEN [s EXCEPT !.ballots = Append(s.ballots, <<rep.ballot, rep.majority_connected>>)]
    ELSE [s EXCEPT !.hb_delay = s.hb_delay + s.increment_delay]

handle(s, m) ==
    IF m.msg.type = "Request" THEN handle_request(s, m.from, m.msg)
    ELSE handle_reply(s, m.msg)

\* the host drains the outbound queue
take_outgoing(s) == [s EXCEPT !.outgoing = <<>>]

-----------------------------------------------------------------------------
(* One replica driven by its host: any sequence of tick(), handle(),       *)
(* set_initial_leader() and take_outgoing() calls, with any message.       *)

\* the replica the host drives
Self == 1

\* the construction parameters the host may choose: a 3-node and a 5-node
\* cluster, and a 3-node cluster whose initial_delay_factor exceeds hb_delay
Configs ==
    { [peers |-> <<2, 3>>, pid |-> Self, hb_delay |-> 2, increment_delay |-> 1,
       quick_timeout |-> TRUE, initial_leader |-> None,
       initial_delay_factor |-> Some(2)],
      [peers |-> <<2, 3, 4, 5>>, pid |-> Self, hb_delay |-> 1, increment_delay |-> 0,
       quick_timeout |-> FALSE, initial_leader |-> None,
       initial_delay_factor |-> None],
      [peers |-> <<2, 3>>, pid |-> Self, hb_delay |-> 1, increment_delay |-> 0,
       quick_timeout |-> TRUE, initial_leader |-> None,
       initial_delay_factor |-> Some(2)] }

construct(c) ==
    BallotLeaderElection_with(c.peers, c.pid, c.hb_delay, c.increment_delay,
                              c.quick_timeout, c.initial_leader,
                              c.initial_delay_factor)

\* the incoming requests: a sender and whether the round is the receiver's own
InputRequests == {<<2, 0>>, <<3, 1>>}

\* the ballot numbers incoming messages carry: the least and the greatest
InputNs == {0, MaxN}

\* the ballots incoming replies carry
InputBallots == {Ballot_with(n, 2) : n \in InputNs}

InputLeaders ==
    {Leader_with(q, Ballot_with(n, q)) : n \in InputNs, q \in {Self, 2}}

\* the incoming replies: of the current round with any ballot and flag, of an
\* older round (a candidate with the greatest ballot) and of a newer round
InputReplies(s) ==
    {HeartbeatReply_with(s.hb_round, b, mc) : b \in InputBallots, mc \in BOOLEAN}
    \cup {HeartbeatReply_with(s.hb_round + 1, Ballot_with(0, 2), FALSE)}
    \cup (IF s.hb_round = 0 THEN {}
          ELSE {HeartbeatReply_with(s.hb_round - 1, Ballot_with(MaxN, 2), TRUE)})


\* the ballot number of the leader a replica holds, -1 if none
leader_n(s) == IF is_none(s.leader) THEN -1 ELSE s.leader[1].n

max2(a, b) == IF a >= b THEN a ELSE b

\* what the last call was: its name, the replica, the message handled (an
\* Option), whether it closed a round, how many replies the ballot bag held
\* when it began, and what tick() returned
call(op, p, msg, closed, replies, result) ==
    [op |-> op, pid |-> p, msg |-> msg, closed |-> closed, replies |-> replies,
     result |-> result]

\* replica p is left in state s by the call c; held[p] is the greatest ballot
\* number among the leaders p has held, announced[p] the return value of the
\* tick() that closed p's last round
Step(p, s, c) ==
    /\ ble' = [ble EXCEPT ![p] = s]
    /\ held' = [held EXCEPT ![p] = max2(held[p], leader_n(s))]
    /\ last' = c
    /\ announced' = IF c.op = "tick" /\ c.closed
                     THEN [announced EXCEPT ![p] = c.result] ELSE announced
    /\ seeded' = [seeded EXCEPT ![p] = @ \/ c.op = "set_initial_leader"]

\* tick() on s closes the round
closes_round(s) == s.ticks_elapsed + 1 >= s.hb_current_delay

\* the host may call while at most MaxOut messages wait in outgoing
room(s) == Len(s.outgoing) <= MaxOut

Init ==
    /\ cfg \in [{Self} -> Configs]
    /\ ble = [p \in {Self} |-> construct(cfg[p])]
    /\ held = [p \in {Self} |-> leader_n(ble[p])]
    /\ last = call("with", Self, None, FALSE, 0, None)
    /\ net = <<>>
    /\ ticked = {}
    /\ cut = FALSE
    /\ closes = [p \in {Self} |-> 0]
    /\ announced = [p \in {Self} |-> None]
    /\ seeded = [p \in {Self} |-> FALSE]

Tick ==
    \E p \in DOMAIN ble :
        LET s == ble[p]
            r == tick(s)
        IN  /\ room(s)
            /\ r.state.hb_round <= MaxRound
            /\ r.state.current_ballot.n <= MaxN + 1
            /\ Step(p, r.state,
                    call("tick", p, None, closes_round(s), Len(s.ballots), r.result))
            /\ UNCHANGED <<cfg, net, ticked, cut, closes>>

HandleRequest ==
    \E p \in DOMAIN ble : \E i \in InputRequests :
        LET s == ble[p]
            m == BLEMessage_with(i[1], p, HeartbeatRequest_with(s.hb_round + i[2]))
        IN  /\ room(s)
            /\ Step(p, handle(s, m),
                    call("handle", p, Some(m), FALSE, Len(s.ballots), None))
            /\ UNCHANGED <<cfg, net, ticked, cut, closes>>

HandleReply ==
    \E p \in DOMAIN ble : \E rep \in InputReplies(ble[p]) :
        LET s == ble[p]
            m == BLEMessage_with(rep.ballot.pid, p, rep)
            h == handle(s, m)
        IN  /\ room(s)
            /\ Len(h.ballots) <= MaxBag
            /\ h.hb_delay <= MaxDelay
            /\ Step(p, h, call("handle", p, Some(m), FALSE, Len(s.ballots), None))
            /\ UNCHANGED <<cfg, net, ticked, cut, closes>>

SetInitialLeader ==
    \E p \in DOMAIN ble : \E l \in InputLeaders :
        LET s == ble[p]
        IN  /\ room(s)
            /\ is_none(s.leader)
            /\ Step(p, set_initial_leader(s, l),
                    call("set_initial_leader", p, None, FALSE, Len(s.ballots), None))
            /\ UNCHANGED <<cfg, net, ticked, cut, closes>>

TakeOutgoing ==
    \E p \in DOMAIN ble :
        LET s == ble[p]
        IN  /\ s.outgoing # <<>>
            /\ Step(p, take_outgoing(s),
                    call("take_outgoing", p, None, FALSE, Len(s.ballots), None))
            /\ UNCHANGED <<cfg, net, ticked, cut, closes>>

Next ==
    \/ Tick
    \/ HandleRequest
    \/ HandleReply
    \/ SetInitialLeader
    \/ TakeOutgoing

Spec == Init /\ [][Next]_vars

-----------------------------------------------------------------------------
(* A cluster of three replicas ticked in lockstep.  In every lockstep tick *)
(* each replica ticks once, in any order; the transport takes what a       *)
(* replica has queued and delivers every message at once, to the replica   *)
(* named in its `to` field, before the next tick() call.                   *)

Procs == {1, 2, 3}

\* the other replicas, in ascending order
peers_of(p) ==
    IF p = 1 THEN <<2, 3>> ELSE IF p = 2 THEN <<1, 3>> ELSE <<1, 2>>

\* the initial leader the cluster may be constructed with
Leader3 == Leader_with(3, Ballot_with(0, 3))

ClusterConfigs ==
    { [p \in Procs |->
          [peers |-> peers_of(p), pid |-> p, hb_delay |-> 5,
           increment_delay |-> inc, quick_timeout |-> FALSE,
           initial_leader |-> il, initial_delay_factor |-> None]]
      : inc \in {0, 1}, il \in {None, Some(Leader3)} }

\* nothing is queued and nothing is in flight
quiet == net = <<>> /\ \A p \in Procs : ble[p].outgoing = <<>>

\* the transport drops what replica 3 sends, and what names 3 as its sender
dropped(sender, m) == cut /\ (sender = 3 \/ m.from = 3)

InitCluster ==
    /\ cfg \in ClusterConfigs
    /\ ble = [p \in Procs |-> construct(cfg[p])]
    /\ held = [p \in Procs |-> leader_n(ble[p])]
    /\ last = call("with", 1, None, FALSE, 0, None)
    /\ net = <<>>
    /\ ticked = {}
    /\ cut = FALSE
    /\ closes = [p \in Procs |-> 0]
    /\ announced = [p \in Procs |-> None]
    /\ seeded = [p \in Procs |-> FALSE]

ClusterTick ==
    \E p \in Procs \ ticked :
        LET s == ble[p]
            r == tick(s)
        IN  /\ quiet
            /\ r.state.hb_round <= MaxRound
            /\ Step(p, r.state,
                    call("tick", p, None, closes_round(s), Len(s.ballots), r.result))
            /\ ticked' = IF ticked \cup {p} = Procs THEN {} ELSE ticked \cup {p}
            /\ closes' = IF cut /\ closes_round(s)
                         THEN [closes EXCEPT ![p] = @ + 1] ELSE closes
            /\ UNCHANGED <<cfg, net, cut>>

\* the transport takes the messages replica p has queued
ClusterSend ==
    \E p \in Procs :
        LET s == ble[p]
            kept == {i \in 1..Len(s.outgoing) : ~dropped(p, s.outgoing[i])}
            pick[i \in 0..Len(s.outgoing)] ==
                IF i = 0 THEN <<>>
                ELSE IF i \in kept THEN Append(pick[i - 1], s.outgoing[i])
                ELSE pick[i - 1]
        IN  /\ s.outgoing # <<>>
            /\ Step(p, take_outgoing(s),
                    call("take_outgoing", p, None, FALSE, Len(s.ballots), None))
            /\ net' = net \o pick[Len(s.outgoing)]
            /\ UNCHANGED <<cfg, ticked, cut, closes>>

\* the transport delivers the oldest message to the replica its `to` names
ClusterDeliver ==
    /\ net # <<>>
    /\ LET m == Head(net)
       IN  /\ m.to \in Procs
           /\ Step(m.to, handle(ble[m.to], m),
                   call("handle", m.to, Some(m), FALSE, Len(ble[m.to].ballots), None))
    /\ net' = Tail(net)
    /\ UNCHANGED <<cfg, ticked, cut, closes>>

\* between two lockstep ticks, while replicas 1 and 2 hold the leader (0, 3),
\* the messages from replica 3 stop being delivered
CutOff ==
    /\ ~cut
    /\ quiet
    /\ ticked = {}
    /\ ble[1].leader = Some(Leader3.round)
    /\ ble[2].leader = Some(Leader3.round)
    /\ cut' = TRUE
    /\ UNCHANGED <<ble, cfg, last, held, net, ticked, closes, announced, seeded>>

NextCluster ==
    \/ ClusterTick
    \/ ClusterSend
    \/ ClusterDeliver
    \/ CutOff

SpecCluster == InitCluster /\ [][NextCluster]_vars

-----------------------------------------------------------------------------
(* Properties of one replica                                               *)

\* the call that led to this state handled a request / a reply
handled(type) == last.op = "handle" /\ last.msg[1].msg.type = type

\* C1: current_ballot.n never decreases: in every step of every replica the
\* new current_ballot.n is at least the old one.
C1_BallotNumberNeverDecreases ==
    [][\A p \in DOMAIN ble :
          ble'[p].current_ballot.n >= ble[p].current_ballot.n]_vars

\* C1, for the round closes alone: no tick() decreases current_ballot.n.
C1_NoRoundCloseDecreases ==
    [][\A p \in DOMAIN ble :
          last'.op = "tick" => ble'[p].current_ballot.n >= ble[p].current_ballot.n]_vars

\* C2: the ballot number of the declared leader never goes backwards: when a
\* round close sets leader to a ballot b, b.n is at least the ballot number
\* of every leader this replica held before.
C2_LeaderNumberNeverGoesBack ==
    [][\A p \in DOMAIN ble :
          (/\ last'.op = "tick"
           /\ ~is_none(ble'[p].leader)
           /\ ble'[p].leader # ble[p].leader)
          => ble'[p].leader[1].n >= held[p]]_vars

\* C5: every Leader event tick() returns names a ballot that is in the ballot
\* bag of the round being closed (the replies of the round and the replica's
\* own entry) with candidate_flag true.
C5_LeaderWasCandidate ==
    [][(last'.op = "tick" /\ ~is_none(last'.result)) =>
          LET s == ble[last'.pid]
              bag == Append(s.ballots, <<s.current_ballot, s.majority_connected>>)
          IN  \E i \in 1..Len(bag) : bag[i] = <<last'.result[1].round, TRUE>>]_vars

\* C6: a round close with |ballots| + 1 < majority leaves majority_connected
\* false and ballots empty, returns none, and changes neither leader nor
\* current_ballot nor hb_delay.
C6_FailedGate ==
    [][\A p \in DOMAIN ble :
          (/\ last'.op = "tick"
           /\ last'.pid = p
           /\ closes_round(ble[p])
           /\ Len(ble[p].ballots) + 1 < ble[p].majority)
          => /\ ble'[p].majority_connected = FALSE
             /\ ble'[p].ballots = <<>>
             /\ is_none(last'.result)
             /\ ble'[p].leader = ble[p].leader
             /\ ble'[p].current_ballot = ble[p].current_ballot
             /\ ble'[p].hb_delay = ble[p].hb_delay]_vars

\* a replica of a 5-node cluster has just closed its second or a later round
\* with one reply in the bag, below the majority of 3
C6_Witness ==
    /\ last.op = "tick"
    /\ last.closed
    /\ ble[last.pid].majority = 3
    /\ last.replies = 1
    /\ ble[last.pid].hb_round >= 2
    /\ ~ble[last.pid].majority_connected

\* C7: every round close empties ballots, advances hb_round by exactly one
\* and appends exactly |peers| HeartbeatRequests of the new round to outgoing,
\* one per peer; no other call changes hb_round.
C7_RoundClose ==
    [][\A p \in DOMAIN ble :
          LET s == ble[p]
              t == ble'[p]
              new == SubSeq(t.outgoing, Len(s.outgoing) + 1, Len(t.outgoing))
          IN  IF last'.op = "tick" /\ last'.pid = p /\ closes_round(s)
              THEN /\ t.ballots = <<>>
                   /\ t.hb_round = s.hb_round + 1
                   /\ Len(t.outgoing) = Len(s.outgoing) + Len(s.peers)
                   /\ SubSeq(t.outgoing, 1, Len(s.outgoing)) = s.outgoing
                   /\ \A i \in 1..Len(new) :
                          new[i].msg = HeartbeatRequest_with(t.hb_round)
                   /\ \A k \in 1..Len(s.peers) :
                          Cardinality({i \in 1..Len(new) :
                              s.peers[k] \in {new[i].from, new[i].to}}) = 1
              ELSE t.hb_round = s.hb_round]_vars

\* a replica has just closed its second or a later round with the gate passed
C7_Witness ==
    /\ last.op = "tick"
    /\ last.closed
    /\ last.replies + 1 >= ble[last.pid].majority
    /\ ble[last.pid].hb_round >= 2
    /\ ble[last.pid].ballots = <<>>
    /\ Len(ble[last.pid].outgoing) >= Len(ble[last.pid].peers)

C9_RequestReply ==
    [][(last'.op = "handle" /\ last'.msg[1].msg.type = "Request") =>
          LET s == ble[last'.pid]
              m == last'.msg[1]
          IN  ble'[last'.pid] =
                  [s EXCEPT !.outgoing = Append(@,
                      [from |-> s.pid, to |-> m.from,
                       msg |-> [type |-> "Reply", round |-> m.msg.round,
                                ballot |-> s.current_ballot,
                                majority_connected |-> s.majority_connected]])]]_vars

\* a replica that is not majority-connected and has bumped its ballot has just
\* answered a request of a round that is not its own
C9_Witness ==
    /\ handled("Request")
    /\ last.msg[1].msg.round # ble[last.pid].hb_round
    /\ ~ble[last.pid].majority_connected
    /\ ble[last.pid].current_ballot.n >= 1
    /\ ble[last.pid].outgoing # <<>>

\* C10: a reply of another round than hb_round adds increment_delay to hb_delay
\* and changes nothing else; a reply of round hb_round appends exactly its
\* (ballot, majority_connected) to ballots and changes nothing else.
C10_ReplyHandling ==
    [][(last'.op = "handle" /\ last'.msg[1].msg.type = "Reply") =>
          LET s == ble[last'.pid]
              rep == last'.msg[1].msg
          IN  IF rep.round = s.hb_round
              THEN ble'[last'.pid] =
                       [s EXCEPT !.ballots =
                            Append(@, <<rep.ballot, rep.majority_connected>>)]
              ELSE ble'[last'.pid] =
                       [s EXCEPT !.hb_delay = @ + s.increment_delay]]_vars

\* a replica with a reply in its bag has just handled a stale reply of a
\* candidate, which widened hb_delay from 2 to 3
C10_Witness ==
    /\ handled("Reply")
    /\ last.msg[1].msg.round < ble[last.pid].hb_round
    /\ last.msg[1].msg.majority_connected
    /\ ble[last.pid].increment_delay = 1
    /\ ble[last.pid].hb_delay = 3
    /\ Len(ble[last.pid].ballots) = 1

\* C11: handle() of any message and a tick() that does not close a round leave
\* leader, current_ballot and majority_connected unchanged; and from a tick()
\* that returned Some(Leader(p, b)) until the next round close, get_leader()
\* returns Some(Leader(p, b)).
C11_OnlyAtRoundClose ==
    /\ [][(last'.op = "handle" \/ (last'.op = "tick" /\ ~last'.closed)) =>
              LET s == ble[last'.pid]
                  t == ble'[last'.pid]
              IN  /\ t.leader = s.leader
                  /\ t.current_ballot = s.current_ballot
                  /\ t.majority_connected = s.majority_connected]_vars
    /\ [](\A p \in DOMAIN ble :
              ~is_none(announced[p]) => get_leader(ble[p]) = announced[p])

\* a replica whose last round close returned a Leader event with the greatest
\* ballot number has since ticked without closing the round and has just
\* handled a reply; get_leader() still returns that event
C11_Witness ==
    /\ handled("Reply")
    /\ ~is_none(announced[last.pid])
    /\ announced[last.pid][1].round.n = MaxN
    /\ ble[last.pid].ticks_elapsed >= 1
    /\ get_leader(ble[last.pid]) = announced[last.pid]

\* C13: in every state, starting with the state right after construction,
\* hb_current_delay is hb_delay / initial_delay_factor while quick_timeout is
\* true and hb_delay otherwise.
C13_CurrentDelay ==
    \A p \in DOMAIN ble :
        ble[p].hb_current_delay =
            IF ble[p].quick_timeout
            THEN ble[p].hb_delay \div ble[p].initial_delay_factor
            ELSE ble[p].hb_delay

\* C14: set_initial_leader is one-shot: a call goes through (instead of
\* aborting) only on an instance on which no earlier call went through,
\* whatever tick() and handle() calls came between, and only when leader is
\* none; a call that goes through sets quick_timeout to false and leaves
\* outgoing and hb_round unchanged.
C14_OneShot ==
    [][(last'.op = "set_initial_leader" /\ ble' # ble) =>
          LET s == ble[last'.pid]
              t == ble'[last'.pid]
          IN  /\ ~seeded[last'.pid]
              /\ is_none(s.leader)
              /\ ~t.quick_timeout
              /\ t.outgoing = s.outgoing
              /\ t.hb_round = s.hb_round]_vars

\* C15: at a round close that passes the majority gate, with an absent leader
\* counted as (0, 0): if the greatest candidate ballot of the bag equals the
\* leader, leader is unchanged and tick() returns none (so no event when leader
\* is none and the bag has no candidate); a Leader event names a ballot
\* different from the leader known before.
C15_SameLeaderNoEvent ==
    [][\A p \in DOMAIN ble :
          (/\ last'.op = "tick"
           /\ last'.pid = p
           /\ closes_round(ble[p])
           /\ Len(ble[p].ballots) + 1 >= ble[p].majority)
          => LET s == ble[p]
                 bag == Append(s.ballots, <<s.current_ballot, s.majority_connected>>)
                 known == unwrap_or_default(s.leader)
             IN  /\ top_ballot_of(bag) = known
                        => ble'[p].leader = s.leader /\ is_none(last'.result)
                 /\ ~is_none(last'.result) => last'.result[1].round # known]_vars

\* C16: whenever tick() returns Some(Leader(p, b)): b is strictly greater than
\* the leader known before the close (none counted as (0, 0)), p = b.pid,
\* afterwards leader = b, quick_timeout is false, and majority_connected is
\* true exactly when p is the replica's own pid; and quick_timeout, once
\* false, is false in every later state.
C16_LeaderEvent ==
    /\ [][(last'.op = "tick" /\ ~is_none(last'.result) /\ ble' # ble) =>
              LET s == ble[last'.pid]
                  t == ble'[last'.pid]
                  l == last'.result[1]
              IN  /\ Ballot_lt(unwrap_or_default(s.leader), l.round)
                  /\ l.pid = l.round.pid
                  /\ t.leader = Some(l.round)
                  /\ ~t.quick_timeout
                  /\ t.majority_connected <=> (l.pid = t.pid)]_vars
    /\ [][\A p \in DOMAIN ble :
              ~ble[p].quick_timeout => ~ble'[p].quick_timeout]_vars

\* C17: at a round close that passes the majority gate with the greatest
\* candidate ballot below the leader, current_ballot becomes
\* (leader.n + 1, own pid), leader becomes none, majority_connected becomes
\* true and tick() returns none.
C17_IncumbentLoss ==
    [][\A p \in DOMAIN ble :
          LET s == ble[p]
              bag == Append(s.ballots, <<s.current_ballot, s.majority_connected>>)
          IN  (/\ last'.op = "tick"
               /\ last'.pid = p
               /\ closes_round(s)
               /\ Len(s.ballots) + 1 >= s.majority
               /\ Ballot_lt(top_ballot_of(bag), unwrap_or_default(s.leader)))
              => /\ ble'[p].current_ballot =
                        Ballot_with(unwrap_or_default(s.leader).n + 1, s.pid)
                 /\ is_none(ble'[p].leader)
                 /\ ble'[p].majority_connected
                 /\ is_none(last'.result)]_vars

\* a replica that held a leader with ballot number MaxN, its own ballot number
\* being lower, has just closed a round with a reply in the bag and lost the
\* leader: its ballot number is MaxN + 1
C17_Witness ==
    /\ last.op = "tick"
    /\ last.closed
    /\ last.replies >= 1
    /\ last.replies + 1 >= ble[last.pid].majority
    /\ is_none(last.result)
    /\ is_none(ble[last.pid].leader)
    /\ held[last.pid] = MaxN
    /\ ble[last.pid].current_ballot = Ballot_with(MaxN + 1, last.pid)
    /\ ble[last.pid].majority_connected

\* C18: in every state the local election is in one of three states: leader
\* none; leader = Some(b) with b.pid another replica; or leader = Some(b) with
\* b.pid the own pid and majority_connected true.  So a replica that holds
\* itself as the leader is majority-connected.
C18_ElectionStates ==
    \A p \in DOMAIN ble :
        \/ is_none(ble[p].leader)
        \/ ble[p].leader[1].pid # ble[p].pid
        \/ ble[p].leader[1].pid = ble[p].pid /\ ble[p].majority_connected

\* C19: in every state between calls 0 <= ticks_elapsed < hb_current_delay; a
\* tick() closes the round exactly when it brings ticks_elapsed to
\* hb_current_delay, and then leaves ticks_elapsed at 0.
C19_TickCounter ==
    /\ [](\A p \in DOMAIN ble :
              /\ 0 <= ble[p].ticks_elapsed
              /\ ble[p].ticks_elapsed < ble[p].hb_current_delay)
    /\ [][(last'.op = "tick" /\ ble' # ble) =>
              LET s == ble[last'.pid]
                  t == ble'[last'.pid]
              IN  /\ last'.closed <=> s.ticks_elapsed + 1 = s.hb_current_delay
                  /\ t.hb_round # s.hb_round <=> last'.closed
                  /\ last'.closed => t.ticks_elapsed = 0
                  /\ ~last'.closed => t.ticks_elapsed = s.ticks_elapsed + 1]_vars

-----------------------------------------------------------------------------
(* Properties of the cluster in lockstep                                   *)

\* C3: three-node bootstrap without an initial leader: at its second round
\* close every replica's tick() returns Leader(3, (0, 3)), the three second
\* round closes fall in the same lockstep tick, and no replica returns a
\* Leader event naming another pid up to then.
C3_Bootstrap ==
    is_none(cfg[1].initial_leader) =>
        /\ (last.op = "tick" /\ last.closed /\ ble[last.pid].hb_round = 2)
               => last.result = Some(Leader3)
        /\ (last.op = "tick" /\ ~is_none(last.result) /\ ble[last.pid].hb_round <= 2)
               => last.result[1].pid = 3
        /\ (ticked = {} /\ \E p \in Procs : ble[p].hb_round = 2)
               => \A p \in Procs : ble[p].hb_round = 2

\* C4: leader failure: once the messages from replica 3 have stopped, replica
\* 1 or 2 closing a round it opened since, while it holds the leader (0, 3),
\* clears the leader, sets current_ballot to (1, pid) and majority_connected
\* to true, and its next round close returns Leader(2, (1, 2)).
C4_LeaderFailure ==
    [][\A p \in {1, 2} :
          (/\ cut
           /\ last'.op = "tick"
           /\ last'.pid = p
           /\ closes_round(ble[p])
           /\ closes[p] >= 1)
          => /\ ble[p].leader = Some(Leader3.round)
                 => /\ is_none(ble'[p].leader)
                    /\ ble'[p].current_ballot = Ballot_with(1, p)
                    /\ ble'[p].majority_connected
             /\ (/\ is_none(ble[p].leader)
                 /\ ble[p].current_ballot = Ballot_with(1, p)
                 /\ ble[p].majority_connected)
                 => last'.result = Some(Leader_with(2, Ballot_with(1, 2)))]_vars

\* C12: right after construction with an initial leader: a replica the leader
\* names has current_ballot = (initial_leader.round.n, pid) and
\* majority_connected true; any other replica has get_leader() = the initial
\* leader, current_ballot = (0, pid) and majority_connected false.
C12_ConstructionWithLeader ==
    last.op = "with" =>
        \A p \in DOMAIN ble :
            LET il == cfg[p].initial_leader
                s == ble[p]
            IN  ~is_none(il) =>
                    IF il[1].pid = cfg[p].pid
                    THEN /\ s.current_ballot = Ballot_with(il[1].round.n, cfg[p].pid)
                         /\ s.majority_connected
                    ELSE /\ get_leader(s) = il
                         /\ s.current_ballot = Ballot_with(0, cfg[p].pid)
                         /\ ~s.majority_connected

\* C20: while every message is delivered, any two replicas whose last round
\* close was the close of the same heartbeat round and returned a Leader event
\* returned the same ballot.
C20_OneBallotPerRound ==
    ~cut =>
        \A p \in DOMAIN ble : \A q \in DOMAIN ble :
            (/\ ble[p].hb_round = ble[q].hb_round
             /\ ~is_none(announced[p])
             /\ ~is_none(announced[q]))
            => announced[p][1].round = announced[q][1].round

====
